---- MODULE Spec2Model ----
(***************************************************************************)
(* A model of the text RPG engine of src/Ai_Game.py: the start menu, the   *)
(* scene loop of TextGame.play, the inventory, save/load and the combat    *)
(* loop of TextGame.do_combat.                                             *)
(*                                                                         *)
(* A state is the program waiting at one of its prompts: the start menu    *)
(* (pc = "menu"), the top of the scene loop (pc = "story"), the combat     *)
(* prompt (pc = "combat"), or the process after it returned (pc = "exit"). *)
(* Every action is one answer to a prompt together with everything the     *)
(* code does until the next prompt.                                        *)
(***************************************************************************)
EXTENDS Integers, Sequences, FiniteSets, TLC

VARIABLES
    pc,             \* which prompt the program waits at
    template,       \* self.template: a template key, or "None"
    player,         \* self.player: an Actor record, or NoPlayer
    inventory,      \* self.inventory: a sequence of Item records
    current_scene,  \* self.current_scene
    flags,          \* self.flags
    enemy,          \* the local `enemy` of do_combat, or NoEnemy
    edge,           \* the edge whose combat is running: its next_scene and effect
    save_file,      \* the content of SAVE_FILE, or NoFile
    saved,          \* the session as it was when save_game last wrote, or NoSave
    steps,          \* number of accepted edges since the process started
    combats,        \* number of do_combat calls since the process started
    last            \* what the last operation was and how it ended

vars == <<pc, template, player, inventory, current_scene, flags, enemy, edge,
          save_file, saved, steps, combats, last>>

\* The in-memory session: the fields C10 and the frame claims speak about.
session == <<template, player, inventory, current_scene, flags>>

-----------------------------------------------------------------------------
(* Bounds of the exploration *)

\* The first NumChars entries of CHAR_TEMPLATES can be chosen.
NumChars == 1
\* An edge or a reward that appends an item is explored only while the
\* inventory holds fewer than MaxInv items.
MaxInv == 3
\* Accepted edges explored per process run.
MaxSteps == 2
\* Calls of do_combat explored per process run.
MaxCombats == 1
\* Of every random.randint(lo, hi) the DrawWidth highest values are explored.
DrawWidth == 1
\* Amulets worn and blades used before a fight, each at most (the scenes can
\* be walked again and again through an undefined scene id).
MaxBuffs == 6
\* Fights in one run of the engine on the probe table: a second encounter
\* with the same enemy key happens.
MaxRematch == 2
\* Edges in one run of the walk without fights: the eight from start to the
\* peace ending fit.
MaxWalk == 8

-----------------------------------------------------------------------------
(* Python values *)

\* The empty dict {} and the effect None of an edge.
EmptyDict == [k \in {} |-> 0]

Has(d, k) == k \in DOMAIN d

NoPlayer == [none |-> TRUE]
NoEnemy == [none |-> TRUE]
NoFile == [kind |-> "absent"]
NoSave == [none |-> TRUE]
NoEdge == [next_scene |-> "", effect |-> EmptyDict]

Max(a, b) == IF a >= b THEN a ELSE b
Min(a, b) == IF a <= b THEN a ELSE b

clamp(n, a, b) == Max(a, Min(b, n))

\* A tuple and a list hold the same elements but are different Python values.
PyTuple(s) == [py |-> "tuple", items |-> s]
PyList(s) == [py |-> "list", items |-> s]

Item(n, d, e) == [name |-> n, description |-> d, effect |-> e]

-----------------------------------------------------------------------------
(* CHAR_TEMPLATES *)

Stats(s, a, m) == [strength |-> s, agility |-> a, magic |-> m]

CHAR_TEMPLATES ==
    << [key |-> "sans",             base_stats |-> Stats(6, 10, 9)],
       [key |-> "underswap_pap",    base_stats |-> Stats(9, 8, 5)],
       [key |-> "storyshift_chara", base_stats |-> Stats(5, 11, 10)],
       [key |-> "storyfell_chara",  base_stats |-> Stats(12, 7, 4)],
       [key |-> "dustfell_sans",    base_stats |-> Stats(11, 6, 6)],
       [key |-> "outer_sans",       base_stats |-> Stats(6, 8, 12)],
       [key |-> "dusttrust_sans",   base_stats |-> Stats(9, 9, 7)],
       [key |-> "nightmare_sans",   base_stats |-> Stats(13, 4, 13)] >>

TemplateKeys == {CHAR_TEMPLATES[i].key : i \in 1..Len(CHAR_TEMPLATES)}

-----------------------------------------------------------------------------
(* build_scenes *)

Choice(nxt, eff) == [next_scene |-> nxt, effect |-> eff]

TarnishedAmulet ==
    Item("Tarnished Amulet", "An old amulet. Grants +2 magic when used (permanent).",
         [buff |-> PyTuple(<<"magic", 2, 999>>)])
HiddenMap == Item("Hidden Map", "A map showing a secret entrance to the castle.", EmptyDict)
RustyBlade ==
    Item("Rusty Blade", "An old blade that grants +2 strength when used (permanent).",
         [buff |-> PyTuple(<<"strength", 2, 999>>)])
HerbalSalve == Item("Herbal Salve", "Heals 30 HP when used.", [heal |-> 30])
DungeonMap == Item("Dungeon Map", "Marks a secret entrance.", EmptyDict)
WolfPelt == Item("Wolf Pelt", "A pelt of a spectral wolf.", EmptyDict)

scenes ==
    [ start |-> << Choice("village", EmptyDict),
                   Choice("approach_castle", EmptyDict),
                   Choice("glade_search", [item |-> TarnishedAmulet]) >>,
      glade_search |-> << Choice("village", [flag |-> "amulet_worn"]),
                          Choice("approach_castle", [item |-> HiddenMap]),
                          Choice("village", EmptyDict) >>,
      village |-> << Choice("cellar", EmptyDict),
                     Choice("village_search", [item |-> RustyBlade]),
                     Choice("road", EmptyDict) >>,
      cellar |-> << Choice("combat", [enemy |-> "wolf_spirit", after |-> "village_reward"]),
                    Choice("road", [flag |-> "saved_villager"]),
                    Choice("road", [flag |-> "ignored_villager"]) >>,
      village_search |-> << Choice("approach_castle", [item |-> HerbalSalve]),
                            Choice("meet_guide", [flag |-> "met_guide"]) >>,
      road |-> << Choice("castle_gate", EmptyDict),
                  Choice("camp", [heal |-> 10]) >>,
      approach_castle |-> << Choice("talk_figure", EmptyDict),
                             Choice("dungeon_entrance", [requires |-> "Hidden Map"]),
                             Choice("gate_assault", [enemy |-> "bandit_chief"]) >>,
      talk_figure |-> << Choice("throne_influence", [flag |-> "offered_help"]),
                         Choice("castle_gate", EmptyDict) >>,
      dungeon_entrance |-> << Choice("dungeons", EmptyDict),
                              Choice("castle_gate", EmptyDict) >>,
      gate_assault |-> << Choice("combat", [enemy |-> "bandit_chief", after |-> "after_bandit"]),
                          Choice("bribe_bandit", EmptyDict) >>,
      bribe_bandit |-> << Choice("castle_gate", [flag |-> "bribed_bandit"]),
                          Choice("combat", [enemy |-> "bandit_chief", after |-> "after_bandit"]) >>,
      castle_gate |-> << Choice("main_hall", EmptyDict),
                         Choice("garden", EmptyDict) >>,
      camp |-> << Choice("castle_gate", EmptyDict) >>,
      dungeons |-> << Choice("combat", [enemy |-> "nightmare_minion", after |-> "dungeon_loot"]),
                      Choice("secret_passage", EmptyDict) >>,
      main_hall |-> << Choice("throne_room", EmptyDict),
                       Choice("servant_wing", EmptyDict) >>,
      throne_room |-> << Choice("combat", [enemy |-> "throne_shadow", after |-> "final_victory"]),
                         Choice("final_negotiate", EmptyDict),
                         Choice("ending_flee", [ending |-> "flee"]) >>,
      final_negotiate |-> << Choice("ending_peace", [requires |-> "saved_villager", ending |-> "peace"]),
                             Choice("combat", [enemy |-> "throne_shadow", after |-> "final_victory"]) >>,
      village_reward |-> << Choice("road", [flag |-> "villager_token"]) >>,
      after_bandit |-> << Choice("dungeons", [item |-> DungeonMap]) >>,
      dungeon_loot |-> << Choice("main_hall", [flag |-> "night_shard"]) >>,
      servant_wing |-> << Choice("main_hall", [flag |-> "learned_ritual"]) >>,
      ending_peace |-> << >>,
      ending_victory |-> << >>,
      ending_flee |-> << >>,
      ending_sacrifice |-> << >> ]

SceneIds == DOMAIN scenes

-----------------------------------------------------------------------------
(* ENEMIES *)

Move(n, b, t) == [name |-> n, base |-> b, type |-> t]

ENEMIES ==
    [ wolf_spirit |-> [hp |-> 45, str |-> 8, agi |-> 9, mag |-> 5,
                       moves |-> << Move("Bite", 8, "physical"), Move("Howl", 0, "debuff") >>],
      bandit_chief |-> [hp |-> 70, str |-> 11, agi |-> 8, mag |-> 4,
                        moves |-> << Move("Slash", 10, "physical"), Move("Poison Dart", 4, "magic") >>],
      nightmare_minion |-> [hp |-> 90, str |-> 10, agi |-> 7, mag |-> 12,
                            moves |-> << Move("Claw", 11, "physical"), Move("Night Rasp", 8, "magic") >>],
      throne_shadow |-> [hp |-> 140, str |-> 14, agi |-> 6, mag |-> 16,
                         moves |-> << Move("Shadow Strike", 15, "physical"),
                                      Move("Abyssal Judgement", 14, "magic"),
                                      Move("Drain", 6, "drain") >>] ]

-----------------------------------------------------------------------------
(* Random draws *)

\* random.randint(lo, hi), cut to its DrawWidth highest values.
RandInt(lo, hi) == {v \in lo..hi : v > hi - DrawWidth}

\* roll(1, 20) + bonus >= defend: the outcomes the twenty faces allow.
HitOutcomes(bonus, defend) == {r + bonus >= defend : r \in 1..20}

\* random.random() < pct/100, random.random() being in [0, 1).
ChanceOutcomes(pct) == {b \in BOOLEAN : IF b THEN pct > 0 ELSE pct < 100}

-----------------------------------------------------------------------------
(* Actors *)

Actor(mh, h, st, mv) ==
    [max_hp |-> mh, hp |-> h, stats |-> st, moves |-> mv, status_effects |-> EmptyDict]

is_alive(a) == a.hp > 0

\* The moves choose_character and load_game give the player.
PlayerMoves(st) ==
    << Move("Attack", st.strength, "physical"),
       Move("Magic", st.magic, "magic"),
       Move("Focus", 0, "buff") >>

\* choose_character, for the valid index i (1-based).
NewPlayer(i) ==
    LET bs == CHAR_TEMPLATES[i].base_stats
        hp == 60 + bs.strength * 2 + bs.magic
    IN  Actor(hp, hp, bs, PlayerMoves(bs))

\* The inventory of __init__.
InitInventory ==
    << Item("Small Potion", "Heals 25 HP.", [heal |-> 25]),
       Item("Smoke Bomb", "Escape attempt in combat (60%).", [escape |-> 60]) >>

\* The inventory the New Game branch of an ending installs.
ResetInventory ==
    << Item("Small Potion", "Heals 25 HP.", [heal |-> 25]),
       Item("Smoke Bomb", "Escape attempt (60%).", [escape |-> 60]) >>

\* The decay removing an entry only once it is below 0.
decay_statuses_KeepsZero(a) ==
    LET se == a.status_effects
        keep == {s \in DOMAIN se : se[s] - 1 >= 0}
    IN  [a EXCEPT !.status_effects = [s \in keep |-> se[s] - 1]]

\* decay_statuses: every duration minus one, entries at or below 0 removed.
decay_statuses(a) ==
    LET se == a.status_effects
        keep == {s \in DOMAIN se : se[s] - 1 > 0}
    IN  [a EXCEPT !.status_effects = [s \in keep |-> se[s] - 1]]

\* d[k] = v on a dict d.
DictSet(d, k, v) == [x \in DOMAIN d \cup {k} |-> IF x = k THEN v ELSE d[x]]

\* d.get(k, dflt)
DictGet(d, k, dflt) == IF k \in DOMAIN d THEN d[k] ELSE dflt

\* lst[idx] for a Python index idx: the 1-based position it reads (a negative
\* index counts from the end).
PyPos(lst, idx) == IF idx < 0 THEN Len(lst) + idx + 1 ELSE idx + 1

\* The last entry removed whatever the index: lst.pop()
DelAt_Last(lst, idx) == SubSeq(lst, 1, Len(lst) - 1)

\* del lst[idx], idx 0-based.
DelAt(lst, idx) == [j \in 1..(Len(lst) - 1) |-> IF j <= idx THEN lst[j] ELSE lst[j + 1]]

-----------------------------------------------------------------------------
(* spawn_enemy *)

\* The pairs (template hp, player power) at which the float product
\* hp * (1.0 + (power - 15) / 80.0) falls just below the exact integer value.
FloatShort == { <<45, 47>>, <<45, 159>>, <<90, 47>>, <<90, 119>>, <<90, 159>> }

\* int(template["hp"] * scale), for player_power in 0..199.
ScaledHp(thp, power) ==
    ((thp * (65 + power)) \div 80) - (IF <<thp, power>> \in FloatShort THEN 1 ELSE 0)

player_power(p) ==
    IF p = NoPlayer THEN 15 ELSE p.stats.strength + p.stats.agility + p.stats.magic

\* The fallback scaled by the player's power as the known enemies are.
spawn_enemy_FallbackScaled(key, p) ==
    LET thp == IF key \in DOMAIN ENEMIES THEN ENEMIES[key].hp ELSE 30
        hp == Max(10, ScaledHp(thp, player_power(p)))
    IN  IF key \notin DOMAIN ENEMIES
        THEN Actor(hp, hp, Stats(5, 5, 5), << Move("Tap", 4, "physical") >>)
        ELSE LET t == ENEMIES[key]
             IN  Actor(hp, hp, Stats(t.str, t.agi, t.mag), t.moves)

\* The actor of the encounter before, when there was one, instead of a new one.
spawn_enemy_Reused(key, p) ==
    IF last.foe # NoEnemy /\ last.outcome \in {"victory", "defeat"} THEN last.foe
    ELSE IF key \notin DOMAIN ENEMIES
    THEN Actor(30, 30, Stats(5, 5, 5), << Move("Tap", 4, "physical") >>)
    ELSE LET t == ENEMIES[key]
             hp == Max(10, ScaledHp(t.hp, player_power(p)))
         IN  Actor(hp, hp, Stats(t.str, t.agi, t.mag), t.moves)

spawn_enemy(key, p) ==
    IF key \notin DOMAIN ENEMIES
    THEN Actor(30, 30, Stats(5, 5, 5), << Move("Tap", 4, "physical") >>)
    ELSE LET t == ENEMIES[key]
             hp == Max(10, ScaledHp(t.hp, player_power(p)))
         IN  Actor(hp, hp, Stats(t.str, t.agi, t.mag), t.moves)

-----------------------------------------------------------------------------
(* Inventory: use_item and show_inventory *)

\* use_item(idx), idx 0-based and valid: the player, the inventory and the
\* branch taken.
use_item(p, inv, idx) ==
    LET item == inv[idx + 1] IN
    IF Has(item.effect, "heal")
    THEN [player |-> [p EXCEPT !.hp = clamp(p.hp + item.effect.heal, 0, p.max_hp)],
          inventory |-> DelAt(inv, idx), res |-> "heal"]
    ELSE IF Has(item.effect, "escape")
    THEN [player |-> p, inventory |-> inv, res |-> "escape"]
    ELSE IF Has(item.effect, "buff")
    THEN LET stat == item.effect.buff.items[1]
             amt == item.effect.buff.items[2]
         IN  [player |-> [p EXCEPT !.stats = DictSet(p.stats, stat, DictGet(p.stats, stat, 0) + amt)],
              inventory |-> DelAt(inv, idx), res |-> "buff"]
    ELSE [player |-> p, inventory |-> inv, res |-> "unusable"]

\* What can be typed at the inventory prompt: B, U <n>, U without a number,
\* anything else.
InvCmds ==
    {[c |-> "b", n |-> 0], [c |-> "u_malformed", n |-> 0], [c |-> "other", n |-> 0]}
        \cup {[c |-> "u", n |-> k] : k \in 0..(MaxInv + 1)}

show_inventory(p, inv, cmd) ==
    IF inv = << >> THEN [player |-> p, inventory |-> inv, res |-> "empty"]
    ELSE IF cmd.c = "b" THEN [player |-> p, inventory |-> inv, res |-> "back"]
    ELSE IF cmd.c = "u_malformed" THEN [player |-> p, inventory |-> inv, res |-> "usage"]
    ELSE IF cmd.c = "u"
    THEN LET idx == cmd.n - 1 IN
         IF idx < 0 \/ idx >= Len(inv)
         THEN [player |-> p, inventory |-> inv, res |-> "bad_index"]
         ELSE use_item(p, inv, idx)
    ELSE [player |-> p, inventory |-> inv, res |-> "unrecognized"]

-----------------------------------------------------------------------------
(* save_game and load_game *)

\* json.dump of an item effect: a tuple is written as an array.
JsonEffect(e) ==
    IF Has(e, "buff") THEN [buff |-> PyList(e.buff.items)] ELSE e

\* What json.dump writes for an inventory of Item records.
JsonInventory(inv) ==
    [j \in 1..Len(inv) |->
        PyList(<< inv[j].name, inv[j].description, JsonEffect(inv[j].effect) >>)]

JsonFile(tpl, p, inv, scene, fl) ==
    [kind |-> "json", template |-> tpl, player |-> p, inventory |-> inv,
     current_scene |-> scene, flags |-> fl]

\* The record save_game writes.
SaveData ==
    JsonFile(template,
             IF player = NoPlayer THEN NoPlayer
             ELSE [hp |-> player.hp, max_hp |-> player.max_hp, stats |-> player.stats],
             JsonInventory(inventory), current_scene, flags)

\* Contents SAVE_FILE can have when the process has not written it: files
\* that earlier runs of the game left, whole or damaged.
\* ThroneSave: saved by sans in the throne room, after a won wolf fight with
\* six bites taken, the token taken, and a second visit to the cellar.
ThroneSave ==
    JsonFile("sans", [hp |-> 9, max_hp |-> 81, stats |-> Stats(6, 10, 9)],
             JsonInventory(InitInventory), "throne_room",
             {"villager_token", "saved_villager"})

\* CellarSave: saved by sans in the cellar, two edges after character selection.
CellarSave ==
    JsonFile("sans", [hp |-> 81, max_hp |-> 81, stats |-> Stats(6, 10, 9)],
             JsonInventory(InitInventory), "cellar", {})

\* ApproachSave: saved by sans before the castle: after the wolf fight and the
\* token, back at the start through the garden, the amulet found and used, the
\* map pocketed.
ApproachSave ==
    JsonFile("sans", [hp |-> 9, max_hp |-> 81, stats |-> Stats(6, 10, 11)],
             JsonInventory(InitInventory \o <<HiddenMap>>), "approach_castle",
             {"villager_token"})

\* No file; a file that is not JSON; the three saves; ThroneSave with a template
\* key that is not in CHAR_TEMPLATES; ThroneSave with "player": null;
\* CellarSave with its first inventory entry cut to two elements.
DiskFiles ==
    { NoFile,
      [kind |-> "garbage"],
      ThroneSave,
      CellarSave,
      ApproachSave,
      [ThroneSave EXCEPT !.template = "ghost"],
      [ThroneSave EXCEPT !.player = NoPlayer],
      [CellarSave EXCEPT !.inventory[1] = PyList(<<"Small Potion", "Heals 25 HP.">>)] }

\* What open(SAVE_FILE) finds.
Disk == IF save_file = NoFile THEN DiskFiles ELSE {save_file}

\* How far load_game gets on the file content f before it returns or raises.
LoadStage(f) ==
    IF f.kind = "absent" THEN "no_file"
    ELSE IF f.kind # "json" THEN "bad_json"
    ELSE IF f.template \notin TemplateKeys THEN "bad_template"
    ELSE IF f.player = NoPlayer THEN "bad_player"
    ELSE IF \E j \in 1..Len(f.inventory) : Len(f.inventory[j].items) # 3 THEN "bad_inventory"
    ELSE "loaded"

LoadedPlayer(f) == Actor(f.player.max_hp, f.player.hp, f.player.stats, PlayerMoves(f.player.stats))

LoadedInventory(f) ==
    [j \in 1..Len(f.inventory) |->
        Item(f.inventory[j].items[1], f.inventory[j].items[2], f.inventory[j].items[3])]

\* self.template after load_game
LoadTemplate(f) ==
    IF LoadStage(f) \in {"bad_player", "bad_inventory", "loaded"} THEN f.template ELSE template

\* self.player after load_game
LoadPlayer(f) ==
    IF LoadStage(f) \in {"bad_inventory", "loaded"} THEN LoadedPlayer(f) ELSE player

-----------------------------------------------------------------------------
(* The state after TextGame() and the start menu of play *)

\* op: the operation; arg: its input or branch; outcome: how it ended;
\* enemy_acted: whether the enemy took its turn in it; foe: the enemy actor as
\* the last pass of do_combat left it, when that pass changed it or spawned it.
\* num: the number typed at a scene, or -1.
LastFoe(op, arg, outcome, acted, foe) ==
    [op |-> op, arg |-> arg, outcome |-> outcome, enemy_acted |-> acted, foe |-> foe,
     num |-> -1]

Last(op, arg, outcome, acted) == LastFoe(op, arg, outcome, acted, NoEnemy)

LastNum(n, arg, outcome, foe) ==
    [LastFoe("number", arg, outcome, FALSE, foe) EXCEPT !.num = n]

Init ==
    /\ pc = "menu"
    /\ template = "None"
    /\ player = NoPlayer
    /\ inventory = InitInventory
    /\ current_scene = "start"
    /\ flags = {}
    /\ enemy = NoEnemy
    /\ edge = NoEdge
    /\ save_file = NoFile
    /\ saved = NoSave
    /\ steps = 0
    /\ combats = 0
    /\ last = Last("init", "", "", FALSE)

\* Start menu, N: choose_character with a valid number.
MenuNew ==
    /\ pc = "menu"
    /\ \E i \in 1..NumChars :
          /\ template' = CHAR_TEMPLATES[i].key
          /\ player' = NewPlayer(i)
    /\ pc' = "story"
    /\ last' = Last("new", "", "", FALSE)
    /\ UNCHANGED <<inventory, current_scene, flags, enemy, edge, save_file, saved, steps, combats>>

\* Start menu, L: load_game, then the story loop unless self.player is None.
MenuLoad ==
    /\ pc = "menu"
    /\ \E f \in Disk :
          LET stage == LoadStage(f) IN
          /\ template' = LoadTemplate(f)
          /\ player' = LoadPlayer(f)
          /\ inventory' = IF stage = "loaded" THEN LoadedInventory(f) ELSE inventory
          /\ current_scene' = IF stage = "loaded" THEN f.current_scene ELSE current_scene
          /\ flags' = IF stage = "loaded" THEN f.flags ELSE flags
          /\ last' = Last("load", "", stage, FALSE)
    /\ pc' = IF player' = NoPlayer THEN "menu" ELSE "story"
    /\ UNCHANGED <<enemy, edge, save_file, saved, steps, combats>>

\* Start menu, Q.
MenuQuit ==
    /\ pc = "menu"
    /\ pc' = "exit"
    /\ last' = Last("exit", "", "", FALSE)
    /\ UNCHANGED <<template, player, inventory, current_scene, flags, enemy, edge,
                   save_file, saved, steps, combats>>

-----------------------------------------------------------------------------
(* The story loop of play *)

Known == current_scene \in SceneIds
AtEnding == Known /\ scenes[current_scene] = << >>
AtChoices == Known /\ scenes[current_scene] # << >>

\* The recovery done as a reset to a new game's session.
Recover_ResetsSession ==
    /\ pc = "story"
    /\ ~Known
    /\ current_scene' = "start"
    /\ inventory' = ResetInventory
    /\ flags' = {}
    /\ last' = Last("recover", current_scene, "", FALSE)
    /\ UNCHANGED <<pc, template, player, enemy, edge, save_file, saved, steps, combats>>

\* The scene id is not in the table: back to "start".
Recover ==
    /\ pc = "story"
    /\ ~Known
    /\ current_scene' = "start"
    /\ last' = Last("recover", current_scene, "", FALSE)
    /\ UNCHANGED <<pc, template, player, inventory, flags, enemy, edge, save_file, saved, steps, combats>>

\* S that also leaves the ending for start.
Save_LeavesEnding ==
    /\ pc = "story"
    /\ Known
    /\ save_file' = SaveData
    /\ saved' = [template |-> template, player |-> player, inventory |-> inventory,
                 current_scene |-> current_scene, flags |-> flags]
    /\ last' = Last("save", IF AtEnding THEN "ending" ELSE "scene", "", FALSE)
    /\ current_scene' = IF AtEnding THEN "start" ELSE current_scene
    /\ UNCHANGED <<pc, template, player, inventory, flags, enemy, edge, steps, combats>>

\* S at an ending or at a scene with choices.
Save ==
    /\ pc = "story"
    /\ Known
    /\ save_file' = SaveData
    /\ saved' = [template |-> template, player |-> player, inventory |-> inventory,
                 current_scene |-> current_scene, flags |-> flags]
    /\ last' = Last("save", IF AtEnding THEN "ending" ELSE "scene", "", FALSE)
    /\ UNCHANGED <<pc, template, player, inventory, current_scene, flags, enemy, edge, steps,
                   combats>>

\* N at an ending.
EndingNew ==
    /\ pc = "story"
    /\ AtEnding
    /\ player' = NoPlayer
    /\ template' = "None"
    /\ inventory' = ResetInventory
    /\ flags' = {}
    /\ current_scene' = "start"
    /\ pc' = "menu"
    /\ last' = Last("ending_new", "", "", FALSE)
    /\ UNCHANGED <<enemy, edge, save_file, saved, steps, combats>>

\* Q at an ending.
EndingQuit ==
    /\ pc = "story"
    /\ AtEnding
    /\ pc' = "exit"
    /\ last' = Last("exit", "", "", FALSE)
    /\ UNCHANGED <<template, player, inventory, current_scene, flags, enemy, edge,
                   save_file, saved, steps, combats>>

\* I at a scene with choices, and the command typed at the inventory prompt.
StoryInventory ==
    /\ pc = "story"
    /\ AtChoices
    /\ \E r \in {show_inventory(player, inventory, cmd) : cmd \in InvCmds} :
          /\ player' = r.player
          /\ inventory' = r.inventory
          /\ last' = Last("inventory", r.res, "", FALSE)
    /\ UNCHANGED <<pc, template, current_scene, flags, enemy, edge, save_file, saved, steps, combats>>

\* Q at a scene with choices.
StoryQuit ==
    /\ pc = "story"
    /\ AtChoices
    /\ player' = NoPlayer
    /\ template' = "None"
    /\ current_scene' = "start"
    /\ pc' = "menu"
    /\ last' = Last("quit", "", "", FALSE)
    /\ UNCHANGED <<inventory, flags, enemy, edge, save_file, saved, steps, combats>>

\* Anything that is neither a command letter nor a number.
StoryNotANumber ==
    /\ pc = "story"
    /\ AtChoices
    /\ last' = Last("not_a_number", "", "", FALSE)
    /\ UNCHANGED <<pc, template, player, inventory, current_scene, flags, enemy, edge,
                   save_file, saved, steps, combats>>

\* The numbers that can be typed at the current scene: 0 up to one past its
\* list of choices.
ChoiceNumbers == 0..(Len(scenes[current_scene]) + 1)

\* The range check without its lower bound.
OutOfRange_NoLowerBound(idx) == idx >= Len(scenes[current_scene])

\* idx < 0 or idx >= len(scene["choices"])
OutOfRange(idx) == idx < 0 \/ idx >= Len(scenes[current_scene])

\* scene["choices"][idx]
Chosen(idx) == scenes[current_scene][PyPos(scenes[current_scene], idx)]

\* A number outside the list of choices.
StoryBadNumber ==
    /\ pc = "story"
    /\ AtChoices
    /\ \E n \in ChoiceNumbers :
          /\ OutOfRange(n - 1)
          /\ last' = LastNum(n, "", "bad_number", NoEnemy)
    /\ UNCHANGED <<pc, template, player, inventory, current_scene, flags, enemy, edge,
                   save_file, saved, steps, combats>>

-----------------------------------------------------------------------------
(* play: a valid choice number *)

\* No requires check at all.
Rejected_Never(eff) == FALSE

\* The requires check looking at the flags only.
Rejected_FlagsOnly(eff) == Has(eff, "requires") /\ eff.requires \notin flags

\* The requires check of play: the edge is refused.
Rejected(eff) ==
    /\ Has(eff, "requires")
    /\ eff.requires \notin flags
    /\ ~ \E j \in 1..Len(inventory) : inventory[j].name = eff.requires

\* The ending id prefixed whether or not that scene exists.
EndingScene_AlwaysPrefixed(id) == "ending_" \o id

\* "ending_" + ending_id if that is a scene, else ending_id.
EndingScene(id) == IF ("ending_" \o id) \in SceneIds THEN "ending_" \o id ELSE id

\* play without the `after` jump.
AfterCombat_NextOnly(eff, next_scene, from_combat) == next_scene

\* What play assigns to current_scene after do_combat returned. do_combat's
\* own assignment (from_combat, made on a defeat) is overwritten.
AfterCombat(eff, next_scene, from_combat) ==
    IF Has(eff, "after") /\ eff.after # "" THEN eff.after ELSE next_scene

\* The scene do_combat assigns when the player has been defeated.
DefeatScene == IF "villager_token" \in flags THEN "ending_sacrifice" ELSE "ending_flee"

EdgeChoice == edge
enemy_key == EdgeChoice.effect.enemy

\* A valid number whose edge is refused by its requires.
EdgeRejected ==
    /\ pc = "story"
    /\ AtChoices
    /\ \E n \in ChoiceNumbers :
          /\ ~OutOfRange(n - 1)
          /\ Rejected(Chosen(n - 1).effect)
          /\ last' = LastNum(n, Chosen(n - 1).next_scene, "rejected", NoEnemy)
    /\ UNCHANGED <<pc, template, player, inventory, current_scene, flags, enemy, edge,
                   save_file, saved, steps, combats>>

\* The edge ch, typed as number n, declares an enemy: do_combat starts. When
\* the loop condition fails at once, do_combat returns without a round.
TakeCombatEdge(n, ch) ==
    LET eff == ch.effect
        foe == IF Has(eff, "enemy") THEN spawn_enemy(eff.enemy, player) ELSE NoEnemy
    IN  /\ ~Rejected(eff)
        /\ Has(eff, "enemy")
        /\ edge' = ch
        /\ IF is_alive(foe) /\ is_alive(player)
           THEN /\ pc' = "combat"
                /\ enemy' = foe
                /\ last' = LastNum(n, eff.enemy, "combat", foe)
                /\ UNCHANGED current_scene
           ELSE /\ pc' = "story"
                /\ enemy' = NoEnemy
                /\ current_scene' = AfterCombat(eff, ch.next_scene, current_scene)
                /\ last' = LastNum(n, eff.enemy, "no_round", foe)
        /\ steps' = steps + 1
        /\ combats' = combats + 1
        /\ UNCHANGED <<template, player, inventory, flags, save_file, saved>>

\* A valid number whose edge declares an enemy.
EdgeCombat ==
    /\ pc = "story"
    /\ AtChoices
    /\ steps < MaxSteps
    /\ combats < MaxCombats
    /\ \E n \in ChoiceNumbers : ~OutOfRange(n - 1) /\ TakeCombatEdge(n, Chosen(n - 1))

\* The flag effect left out.
AddFlag_Drops(fl, eff) == fl

\* The flag effect as an assignment of a one-flag set.
AddFlag_Replaces(fl, eff) == IF Has(eff, "flag") THEN {eff.flag} ELSE fl

\* self.flags.add(effect["flag"])
AddFlag(fl, eff) == IF Has(eff, "flag") THEN fl \cup {eff.flag} ELSE fl

\* The edge ch, typed as number n, declares no enemy: item, heal, flag,
\* ending, then the plain destination.
TakePlainEdge(n, ch) ==
    LET eff == ch.effect
    IN  /\ ~Rejected(eff)
        /\ ~Has(eff, "enemy")
        /\ Has(eff, "item") => Len(inventory) < MaxInv
        /\ inventory' = IF Has(eff, "item") THEN Append(inventory, eff.item) ELSE inventory
        /\ player' = IF Has(eff, "heal")
                     THEN [player EXCEPT !.hp = clamp(player.hp + eff.heal, 0, player.max_hp)]
                     ELSE player
        /\ flags' = AddFlag(flags, eff)
        /\ current_scene' = IF Has(eff, "ending") THEN EndingScene(eff.ending)
                            ELSE ch.next_scene
        /\ last' = LastNum(n, ch.next_scene, "taken", NoEnemy)
        /\ steps' = steps + 1
        /\ UNCHANGED <<pc, template, enemy, edge, save_file, saved, combats>>

\* A valid number whose edge declares no enemy.
EdgePlain ==
    /\ pc = "story"
    /\ AtChoices
    /\ steps < MaxSteps
    /\ \E n \in ChoiceNumbers : ~OutOfRange(n - 1) /\ TakePlainEdge(n, Chosen(n - 1))

-----------------------------------------------------------------------------
(* do_combat: one pass of the loop body per action *)

\* int(base + stat * pct/100)
Scaled(base, stat, pct) == (100 * base + pct * stat) \div 100

\* The damage subtracted without the max(0, ...).
Hurt_Unclamped(a, damage) == [a EXCEPT !.hp = a.hp - damage]

\* The damage added instead of subtracted.
Hurt_Heals(a, damage) == [a EXCEPT !.hp = Min(a.max_hp, a.hp + damage)]

\* enemy.hp = max(0, enemy.hp - damage)
Hurt(a, damage) == [a EXCEPT !.hp = Max(0, a.hp - damage)]

\* Action 1: the enemy after the player's attack.
AttackOutcomes(p, e) ==
    { IF hit THEN Hurt(e, Max(1, DictGet(p.stats, "strength", 5) + r)) ELSE e :
        hit \in HitOutcomes(DictGet(p.stats, "agility", 5) \div 2,
                            8 + DictGet(e.stats, "agility", 5) \div 2),
        r \in RandInt(-3, 3) }

\* Action 2: the enemy after the player's magic.
MagicOutcomes(p, e) ==
    { IF hit THEN Hurt(e, Max(1, DictGet(p.stats, "magic", 5) + r)) ELSE e :
        hit \in HitOutcomes(DictGet(p.stats, "magic", 5) \div 2,
                            7 + DictGet(e.stats, "agility", 5) \div 2),
        r \in RandInt(-4, 4) }

\* Action F: the chance of the flee attempt, in hundredths.
FleeChance(p, e) ==
    30 + (DictGet(p.stats, "agility", 5) - DictGet(e.stats, "agility", 5)) * 2

\* The moves with a drain that takes nothing from the player and gives the
\* enemy twice the amount.
MoveHit_DrainOnlyHeals(p, e, mv, r) ==
    IF mv.type = "physical"
    THEN [player |-> Hurt(p, Max(1, Scaled(mv.base, DictGet(e.stats, "strength", 5), 30) + r)),
          enemy |-> e]
    ELSE IF mv.type = "magic"
    THEN [player |-> Hurt(p, Max(1, Scaled(mv.base, DictGet(e.stats, "magic", 5), 35) + r)),
          enemy |-> e]
    ELSE IF mv.type = "drain"
    THEN LET dmg == Max(1, Scaled(mv.base, DictGet(e.stats, "magic", 5), 25))
         IN  [player |-> p,
              enemy |-> [e EXCEPT !.hp = Min(e.max_hp, e.hp + 2 * dmg)]]
    ELSE IF mv.type = "debuff"
    THEN [player |-> [p EXCEPT !.status_effects = DictSet(p.status_effects, "shaken", 2)],
          enemy |-> e]
    ELSE [player |-> p, enemy |-> e]

\* The enemy's move mv when it hits: player and enemy afterwards.
MoveHit(p, e, mv, r) ==
    IF mv.type = "physical"
    THEN [player |-> Hurt(p, Max(1, Scaled(mv.base, DictGet(e.stats, "strength", 5), 30) + r)),
          enemy |-> e]
    ELSE IF mv.type = "magic"
    THEN [player |-> Hurt(p, Max(1, Scaled(mv.base, DictGet(e.stats, "magic", 5), 35) + r)),
          enemy |-> e]
    ELSE IF mv.type = "drain"
    THEN LET dmg == Max(1, Scaled(mv.base, DictGet(e.stats, "magic", 5), 25))
         IN  [player |-> Hurt(p, dmg),
              enemy |-> [e EXCEPT !.hp = Min(e.max_hp, e.hp + dmg \div 2)]]
    ELSE IF mv.type = "debuff"
    THEN [player |-> [p EXCEPT !.status_effects = DictSet(p.status_effects, "shaken", 2)],
          enemy |-> e]
    ELSE [player |-> p, enemy |-> e]

\* The random.randint of the move's damage line.
MoveRand(mv) ==
    IF mv.type = "physical" THEN RandInt(-2, 2)
    ELSE IF mv.type = "magic" THEN RandInt(-3, 2)
    ELSE {0}

\* The enemy's turn: a random move, the hit roll, the move's effect.
EnemyTurn(p, e) ==
    UNION { { IF hit THEN MoveHit(p, e, e.moves[m], r) ELSE [player |-> p, enemy |-> e] :
                hit \in HitOutcomes(DictGet(e.stats, "agility", 5) \div 2,
                                    7 + DictGet(p.stats, "agility", 5) \div 2),
                r \in MoveRand(e.moves[m]) } :
            m \in 1..Len(e.moves) }

\* do_combat returns: play assigns current_scene and goes on with the loop.
Return(op, arg, outcome, acted, foe, from_combat) ==
    /\ pc' = "story"
    /\ enemy' = NoEnemy
    /\ current_scene' = AfterCombat(EdgeChoice.effect, EdgeChoice.next_scene, from_combat)
    /\ last' = LastFoe(op, arg, outcome, acted, foe)

\* The loop body with the victory check made after the enemy's turn and the
\* decay.
RoundEnd_VictoryCheckedLast(op, arg, p1, e1, inv1) ==
    \E t \in EnemyTurn(p1, e1) :
        LET p2 == decay_statuses(t.player)
            e2 == decay_statuses(t.enemy)
        IN  /\ player' = p2
            /\ inventory' = inv1
            /\ IF ~is_alive(e1)
               THEN Return(op, arg, "victory", TRUE, e1, current_scene)
               ELSE IF ~is_alive(p2)
               THEN Return(op, arg, "defeat", TRUE, e2, DefeatScene)
               ELSE /\ pc' = "combat"
                    /\ enemy' = e2
                    /\ last' = Last("round", "", "ongoing", TRUE)
                    /\ UNCHANGED current_scene

\* The loop body after the player's action left player p1, enemy e1 and
\* inventory inv1: the victory check, the enemy's turn, the decay, the defeat
\* check.
RoundEnd(op, arg, p1, e1, inv1) ==
    IF ~is_alive(e1)
    THEN \E pelt \in (IF enemy_key = "wolf_spirit" THEN ChanceOutcomes(40) ELSE {FALSE}) :
            /\ pelt => Len(inv1) < MaxInv
            /\ inventory' = IF pelt THEN Append(inv1, WolfPelt) ELSE inv1
            /\ player' = p1
            /\ Return(op, arg, "victory", FALSE, e1, current_scene)
    ELSE \E t \in EnemyTurn(p1, e1) :
            LET p2 == decay_statuses(t.player)
                e2 == decay_statuses(t.enemy)
            IN  /\ player' = p2
                /\ inventory' = inv1
                /\ IF ~is_alive(p2)
                   THEN Return(op, arg, "defeat", TRUE, e2, DefeatScene)
                   ELSE /\ pc' = "combat"
                        /\ enemy' = e2
                        /\ last' = Last("round", "", "ongoing", TRUE)
                        /\ UNCHANGED current_scene

CombatAttack ==
    /\ pc = "combat"
    /\ \E e1 \in AttackOutcomes(player, enemy) :
          RoundEnd("attack", "", player, e1, inventory)
    /\ UNCHANGED <<template, flags, edge, save_file, saved, steps, combats>>

CombatMagic ==
    /\ pc = "combat"
    /\ \E e1 \in MagicOutcomes(player, enemy) :
          RoundEnd("magic", "", player, e1, inventory)
    /\ UNCHANGED <<template, flags, edge, save_file, saved, steps, combats>>

\* Action 3 (or u...): show_inventory with result r, then the rest of the
\* loop body.
CombatItemResult(r) ==
    /\ pc = "combat"
    /\ RoundEnd("item", r.res, r.player, enemy, r.inventory)
    /\ UNCHANGED <<template, flags, edge, save_file, saved, steps, combats>>

CombatItem ==
    \E r \in {show_inventory(player, inventory, cmd) : cmd \in InvCmds} : CombatItemResult(r)

CombatFocus ==
    /\ pc = "combat"
    /\ RoundEnd("focus", "",
                [player EXCEPT !.status_effects = DictSet(player.status_effects, "focused", 2)],
                enemy, inventory)
    /\ UNCHANGED <<template, flags, edge, save_file, saved, steps, combats>>

CombatFlee ==
    /\ pc = "combat"
    /\ \E fled \in ChanceOutcomes(FleeChance(player, enemy)) :
          IF fled
          THEN /\ Return("flee", "", "fled", FALSE, NoEnemy, current_scene)
               /\ UNCHANGED <<player, inventory>>
          ELSE RoundEnd("flee", "", player, enemy, inventory)
    /\ UNCHANGED <<template, flags, edge, save_file, saved, steps, combats>>

\* The unknown action without the `continue`: the loop body goes on.
CombatUnknown_TakesRound ==
    /\ pc = "combat"
    /\ RoundEnd("unknown", "", player, enemy, inventory)
    /\ UNCHANGED <<template, flags, edge, save_file, saved, steps, combats>>

\* Any other input: "Unknown action; try again."
CombatUnknown ==
    /\ pc = "combat"
    /\ last' = Last("unknown", "", "ongoing", FALSE)
    /\ UNCHANGED <<pc, template, player, inventory, current_scene, flags, enemy, edge,
                   save_file, saved, steps, combats>>

-----------------------------------------------------------------------------
(* The specification of the game without writes to the save file *)

Combat ==
    \/ CombatAttack \/ CombatMagic \/ CombatItem \/ CombatFocus \/ CombatFlee
    \/ CombatUnknown

Story ==
    \/ Recover \/ EndingNew \/ EndingQuit \/ StoryInventory \/ StoryQuit
    \/ StoryNotANumber \/ StoryBadNumber \/ EdgeRejected \/ EdgeCombat \/ EdgePlain

Menu == MenuNew \/ MenuLoad \/ MenuQuit

Next == Menu \/ Story \/ Combat

Spec == Init /\ [][Next]_vars

-----------------------------------------------------------------------------
(* The specification of the game with a player who keeps fighting: as long as
   a fight goes on, an Attack or a Magic whose hit roll succeeds comes again
   and again *)

\* Action 1 with hit_roll >= defend.
AttackHits ==
    /\ pc = "combat"
    /\ \E e1 \in AttackOutcomes(player, enemy) :
          /\ e1.hp < enemy.hp
          /\ RoundEnd("attack", "", player, e1, inventory)
    /\ UNCHANGED <<template, flags, edge, save_file, saved, steps, combats>>

\* Action 2 with hit_roll >= defend.
MagicHits ==
    /\ pc = "combat"
    /\ \E e1 \in MagicOutcomes(player, enemy) :
          /\ e1.hp < enemy.hp
          /\ RoundEnd("magic", "", player, e1, inventory)
    /\ UNCHANGED <<template, flags, edge, save_file, saved, steps, combats>>

\* The start menu, the edges and the fights.
NextFight == MenuNew \/ MenuLoad \/ EdgePlain \/ EdgeCombat \/ Combat

SpecFight == Init /\ [][NextFight]_vars /\ SF_vars(AttackHits \/ MagicHits)

-----------------------------------------------------------------------------
(* The specification of spawn_enemy: the player, grown by amulets and blades,
   stands at a scene with a fight and chooses it *)

EnemyScenes ==
    {s \in SceneIds : \E j \in 1..Len(scenes[s]) : Has(scenes[s][j].effect, "enemy")}

\* use_item on a amulets and b blades: +2 magic and +2 strength each.
Buffed(p, a, b) ==
    [p EXCEPT !.stats = Stats(p.stats.strength + 2 * b, p.stats.agility, p.stats.magic + 2 * a)]

InitSpawn ==
    /\ pc = "story"
    /\ \E i \in 1..NumChars, a \in 0..MaxBuffs, b \in 0..MaxBuffs :
          /\ template = CHAR_TEMPLATES[i].key
          /\ player = Buffed(NewPlayer(i), a, b)
    /\ inventory = InitInventory
    /\ current_scene \in EnemyScenes
    /\ flags = {}
    /\ enemy = NoEnemy
    /\ edge = NoEdge
    /\ save_file = NoFile
    /\ saved = NoSave
    /\ steps = 0
    /\ combats = 0
    /\ last = Last("new", "", "", FALSE)

NextSpawn == EdgeCombat

SpecSpawn == InitSpawn /\ [][NextSpawn]_vars

-----------------------------------------------------------------------------
(* The specification of the engine on a table with edges that build_scenes
   does not have: play and do_combat, given a scene table in which the
   choices of start combine effects the shipped edges keep apart *)

\* 1: a fight whose edge also gives an item, a heal and a flag.
\* 2: a fight whose edge also declares an ending.
\* 3: an ending id without an ending_<id> scene, with item, heal and flag.
\* 4: an ending id with an ending_<id> scene, with a flag.
\* 5: a fight with an enemy key that ENEMIES does not have.
ProbeChoices ==
    << Choice("start", [enemy |-> "wolf_spirit", item |-> HerbalSalve, heal |-> 10,
                        flag |-> "probed"]),
       Choice("start", [enemy |-> "wolf_spirit", ending |-> "peace"]),
       Choice("start", [ending |-> "nowhere", item |-> HerbalSalve, heal |-> 10,
                        flag |-> "probed"]),
       Choice("start", [ending |-> "flee", flag |-> "probed"]),
       Choice("start", [enemy |-> "lost_echo"]) >>

ProbeScenes == [scenes EXCEPT !["start"] = ProbeChoices]

\* A number typed at start whose edge declares an enemy.
ProbeCombat ==
    /\ pc = "story"
    /\ current_scene = "start"
    /\ steps < MaxSteps
    /\ combats < MaxRematch
    /\ \E n \in 1..Len(ProbeScenes[current_scene]) :
          TakeCombatEdge(n, ProbeScenes[current_scene][n])

\* A number typed at start whose edge declares no enemy.
ProbePlain ==
    /\ pc = "story"
    /\ current_scene = "start"
    /\ steps < MaxSteps
    /\ \E n \in 1..Len(ProbeScenes[current_scene]) :
          TakePlainEdge(n, ProbeScenes[current_scene][n])

NextEngine == MenuNew \/ ProbeCombat \/ ProbePlain \/ Combat \/ Recover

SpecEngine == Init /\ [][NextEngine]_vars

-----------------------------------------------------------------------------
(* The specification of a long walk: new games only, the edges without
   enemy, the requires gates, the recovery from undefined scenes *)

\* A valid number whose edge declares no enemy, up to MaxWalk edges.
WalkPlain ==
    /\ pc = "story"
    /\ AtChoices
    /\ steps < MaxWalk
    /\ \E n \in ChoiceNumbers : ~OutOfRange(n - 1) /\ TakePlainEdge(n, Chosen(n - 1))

NextWalk == MenuNew \/ WalkPlain \/ EdgeRejected \/ Recover

SpecWalk == Init /\ [][NextWalk]_vars

-----------------------------------------------------------------------------
(* The specification of saving and loading: the start menu and the scene
   loop with S, without fights *)

Walk ==
    \/ Recover \/ EndingNew \/ EndingQuit \/ StoryInventory \/ StoryQuit
    \/ StoryNotANumber \/ StoryBadNumber \/ EdgeRejected \/ EdgePlain

NextPersist == Menu \/ Walk \/ Save

SpecPersist == Init /\ [][NextPersist]_vars

-----------------------------------------------------------------------------
(* Properties of the combat return *)

\* The state in which do_combat has just returned with the given outcome.
Returned(outcome) == pc = "story" /\ last.outcome = outcome

\* What the edge that started the last combat declares: its `after` scene if
\* it has one, else its destination.
DeclaredAfter ==
    IF Has(EdgeChoice.effect, "after") THEN EdgeChoice.effect.after
    ELSE EdgeChoice.next_scene

\* C1: when the player's hp reaches 0 in a combat started from an enemy edge,
\* the node the scene loop presents next is ending_sacrifice if villager_token
\* is in flags, and ending_flee otherwise.
C1_DefeatLeadsToEnding ==
    Returned("defeat") => current_scene = DefeatScene

\* C2: when a flee attempt succeeds, the node presented next is the edge's
\* declared destination, also when the edge declares an `after` scene.
C2_FleeLeadsToDestination ==
    Returned("fled") => current_scene = EdgeChoice.next_scene

\* C3: when the enemy's hp reaches 0, the node presented next is the edge's
\* `after` scene if it declares one, and the edge's destination otherwise.
C3_VictoryLeadsToAfter ==
    Returned("victory") => current_scene = DeclaredAfter

\* C3, reached: a victory on an edge without `after` (the bandit chief) ...
C3_VictoryWithoutAfter ==
    Returned("victory") /\ ~Has(EdgeChoice.effect, "after") /\ last.foe.hp = 0

\* ... and a victory on an edge with `after` (the wolves, the shadow).
C3_VictoryWithAfter ==
    Returned("victory") /\ Has(EdgeChoice.effect, "after") /\ last.foe.hp = 0

\* The step takes an edge at a scene: its enemy, or its item, heal, flag,
\* ending and destination.
TakesEdge == last'.op = "number" /\ last'.outcome \in {"taken", "combat", "no_round"}

\* C4: once the player's hp is 0 the player acts no more: no edge is chosen,
\* no combat action performed and no edge effect applied until a new game is
\* started or a save is loaded.
C4_DefeatedPlayerActsNoMore ==
    [][(player # NoPlayer /\ player.hp = 0) => ~(TakesEdge \/ pc' = "combat")]_vars

-----------------------------------------------------------------------------
(* Properties of hit points *)

HpInRange(a) == 0 <= a.hp /\ a.hp <= a.max_hp

\* C5: in every reachable state the player's hp and the hp of the enemy of
\* the current combat are within 0..max_hp, after every attack, magic hit,
\* drain (and the enemy's self-heal), heal edge and heal item. last.foe is the
\* enemy as do_combat left it when it returned.
C5_HpWithinBounds ==
    /\ player # NoPlayer => HpInRange(player)
    /\ enemy # NoEnemy => HpInRange(enemy)
    /\ last.foe # NoEnemy => HpInRange(last.foe)

\* C5, reached: the player was brought to exactly 0 by a hit larger than the
\* hp left (9 hp left, no enemy move deals less than 10) ...
C5_DefeatClampedAtZero ==
    /\ Returned("defeat")
    /\ player.hp = 0
    /\ player.max_hp = 81
    /\ enemy_key = "throne_shadow"

\* ... and a heal item used at full hp left hp at max_hp.
C5_HealClampedAtMax ==
    /\ pc = "story"
    /\ last.op = "inventory"
    /\ last.arg = "heal"
    /\ player.hp = player.max_hp

-----------------------------------------------------------------------------
(* Properties of a number typed at a scene *)

\* The step is the handling of a number typed at a scene with choices.
TypedNumber == pc = "story" /\ AtChoices /\ last'.op = "number"

\* The number typed is within 1..len(choices): index last'.num - 1 is valid.
TypedInRange == last'.num \in 1..Len(scenes[current_scene])

\* The edge the valid typed number selects.
TypedEdge == scenes[current_scene][last'.num]

\* C6: choosing an edge index outside [0, number of edges) leaves the whole
\* session unchanged (current node, player hp and stats, inventory, flags),
\* and the game stays at the scene's prompt.
C6_OutOfRangeChangesNothing ==
    [][(TypedNumber /\ ~TypedInRange) => UNCHANGED <<session, pc, enemy>>]_vars

\* C6, reached: a number one past the list was typed at a scene.
C6_OutOfRangeTyped ==
    /\ pc = "story"
    /\ AtChoices
    /\ last.op = "number"
    /\ last.outcome = "bad_number"
    /\ last.num = Len(scenes[current_scene]) + 1

\* Neither the flag set nor an item's name provides c.
Lacking(c) == c \notin flags /\ \A j \in 1..Len(inventory) : inventory[j].name # c

\* The effect of an edge without enemy, applied once.
AppliedOnce(ch) ==
    /\ inventory' = IF Has(ch.effect, "item") THEN Append(inventory, ch.effect.item)
                    ELSE inventory
    /\ flags' = IF Has(ch.effect, "flag") THEN flags \cup {ch.effect.flag} ELSE flags
    /\ player'.hp = IF Has(ch.effect, "heal")
                    THEN Min(player.max_hp, player.hp + ch.effect.heal) ELSE player.hp
    /\ current_scene' = IF Has(ch.effect, "ending") THEN "ending_" \o ch.effect.ending
                        ELSE ch.next_scene
    /\ steps' = steps + 1

\* C7: an edge that declares requires: c is rejected exactly when c is not in
\* the flag set and no inventory item is named c; a rejected edge changes
\* nothing and starts nothing; an accepted edge applies its effect once.
C7_RequiresGate ==
    [][(TypedNumber /\ TypedInRange /\ Has(TypedEdge.effect, "requires")) =>
          /\ (last'.outcome = "rejected") <=> Lacking(TypedEdge.effect.requires)
          /\ Lacking(TypedEdge.effect.requires) => UNCHANGED <<session, pc, enemy, steps>>
          /\ ~Lacking(TypedEdge.effect.requires) => AppliedOnce(TypedEdge)]_vars

\* C7, reached: an edge was rejected (the scene has an edge with requires and
\* the session lacks what it names) ...
C7_EdgeRejected ==
    /\ pc = "story"
    /\ last.op = "number"
    /\ last.outcome = "rejected"
    /\ Has(scenes[current_scene][last.num].effect, "requires")
    /\ Lacking(scenes[current_scene][last.num].effect.requires)

\* ... an edge was accepted for a flag (negotiation, saved_villager) ...
C7_AcceptedByFlag ==
    /\ pc = "story"
    /\ last.outcome = "taken"
    /\ current_scene = "ending_peace"
    /\ "saved_villager" \in flags

\* ... and an edge was accepted for an item's name (the Hidden Map).
C7_AcceptedByItem ==
    /\ pc = "story"
    /\ last.outcome = "taken"
    /\ current_scene = "dungeon_entrance"
    /\ "Hidden Map" \notin flags
    /\ \E j \in 1..Len(inventory) : inventory[j].name = "Hidden Map"

-----------------------------------------------------------------------------
(* Properties of a combat round *)

\* The step is a Use-Item action on an item with an escape effect.
UsesEscapeItem ==
    /\ pc = "combat"
    /\ \E r \in {show_inventory(player, inventory, cmd) : cmd \in InvCmds} :
          r.res = "escape" /\ CombatItemResult(r)

\* C8: using an escape item through the Use-Item action during combat ends
\* the combat as fled at once, and the enemy does not act in that round.
C8_EscapeItemEndsCombat ==
    [][UsesEscapeItem => (pc' = "story" /\ last'.outcome = "fled" /\ ~last'.enemy_acted)]_vars

\* C9: in the round in which the player's action brings the enemy's hp to 0
\* the combat ends in victory at once: the enemy takes no action, the player's
\* hp and status effects are as the player's action left them, no decay runs.
C9_VictoryEndsRoundAtOnce ==
    [][(pc = "combat" /\ last'.outcome = "victory") =>
          /\ pc' = "story"
          /\ last'.foe.hp = 0
          /\ ~last'.enemy_acted
          /\ player'.hp = player.hp
          /\ player'.status_effects = player.status_effects]_vars

\* C9, reached: a victory with a status effect still on the player, one that
\* a decay would have removed.
C9_VictoryKeepsStatus ==
    /\ Returned("victory")
    /\ last.foe.hp = 0
    /\ \E k \in DOMAIN player.status_effects : player.status_effects[k] = 1

-----------------------------------------------------------------------------
(* Properties of load_game *)

\* C10: if loading fails for any reason (no file, malformed record, unknown
\* template key, missing or null player record, malformed inventory entry),
\* every field of the session (template, player, inventory, current node,
\* flags) is as before the attempt.
C10_FailedLoadChangesNothing ==
    [][(last'.op = "load" /\ last'.outcome # "loaded") => UNCHANGED session]_vars

-----------------------------------------------------------------------------
(* Properties of save_game and load_game *)

\* load_game has just read the file that save_game wrote in this run.
LoadedOwnSave ==
    pc = "story" /\ last.op = "load" /\ last.outcome = "loaded" /\ saved # NoSave

\* C11: saving a session and then loading it reproduces the player's hp,
\* max_hp and stats, the inventory in order (name, description and effect of
\* every item), the current node id and the flag set as they were at the
\* save, whatever happened in between.
C11_SaveThenLoadReproduces ==
    LoadedOwnSave =>
        /\ player.hp = saved.player.hp
        /\ player.max_hp = saved.player.max_hp
        /\ player.stats = saved.player.stats
        /\ inventory = saved.inventory
        /\ current_scene = saved.current_scene
        /\ flags = saved.flags

-----------------------------------------------------------------------------
(* The nodes the scene loop can present in games started with N *)

\* The names some edge requires: what decides whether an edge can be taken.
Gates ==
    UNION { { scenes[s][n].effect.requires :
                n \in {m \in 1..Len(scenes[s]) : Has(scenes[s][m].effect, "requires")} } :
            s \in SceneIds }

\* A node presented, with the required names the session holds (as flags or
\* as names of items; none of the items so named can be used up).
Node(scene, held) == [scene |-> scene, held |-> held]

\* The names an edge without enemy adds to the flags or the inventory.
EdgeGains(eff) ==
    (IF Has(eff, "item") THEN {eff.item.name} ELSE {})
        \cup (IF Has(eff, "flag") THEN {eff.flag} ELSE {})

\* What play presents after the edge ch was taken: after a fight, however it
\* ended, the scene play assigns; else the ending or the destination.
EdgeDest(ch, held) ==
    IF Has(ch.effect, "enemy")
    THEN Node(AfterCombat(ch.effect, ch.next_scene, ""), held)
    ELSE Node(IF Has(ch.effect, "ending") THEN EndingScene(ch.effect.ending)
              ELSE ch.next_scene,
              held \cup (EdgeGains(ch.effect) \cap Gates))

\* The nodes presented next: after an unknown id, "start"; at an ending, N
\* and a new game; at a scene, every edge not refused, or Q and a new game
\* (which keeps flags and inventory).
NodeSucc(x) ==
    IF x.scene \notin SceneIds THEN {Node("start", x.held)}
    ELSE IF scenes[x.scene] = << >> THEN {Node("start", {})}
    ELSE { EdgeDest(scenes[x.scene][n], x.held) :
             n \in {m \in 1..Len(scenes[x.scene]) :
                      ~(/\ Has(scenes[x.scene][m].effect, "requires")
                        /\ scenes[x.scene][m].effect.requires \notin x.held)} }
         \cup {Node("start", x.held)}

RECURSIVE Closure(_, _)
\* The nodes reachable from those of seen, whose members not yet expanded
\* are those of fresh.
Closure(seen, fresh) ==
    IF fresh = {} THEN seen
    ELSE LET found == UNION {NodeSucc(x) : x \in fresh} \ seen
         IN  Closure(seen \cup found, found)

\* The nodes that can be presented from node x on.
ReachableFrom(x) == Closure({x}, {x})

\* The endings among the nodes of a set: the scenes without choices.
EndingsAmong(nodes) ==
    { x.scene : x \in {y \in nodes : y.scene \in SceneIds /\ scenes[y.scene] = << >>} }

\* The node of the current state.
CurrentNode ==
    Node(current_scene,
         Gates \cap (flags \cup {inventory[j].name : j \in 1..Len(inventory)}))

\* C12: at least three distinct ending nodes (nodes with no edges) can become
\* the current node by some sequence of decisions and combat outcomes from a
\* new game at start.
C12_ThreeEndingsReachable ==
    (pc = "story" /\ last.op = "new" /\ current_scene = "start") =>
        Cardinality(EndingsAmong(ReachableFrom(CurrentNode))) >= 3

-----------------------------------------------------------------------------
(* Properties of status effects *)

\* The actors of the state: the player, the enemy of the running combat, the
\* enemy as the last return of do_combat left it.
Actors ==
    (IF player = NoPlayer THEN {} ELSE {player})
        \cup (IF enemy = NoEnemy THEN {} ELSE {enemy})
        \cup (IF last.foe = NoEnemy THEN {} ELSE {last.foe})

DurationsPositive ==
    \A a \in Actors : \A k \in DOMAIN a.status_effects : a.status_effects[k] > 0

\* The step is a round of do_combat that reached the decay: before is an
\* actor's status effects before the round, after those after it. An entry
\* that is left is one lower, or 1 when the round set it to 2 anew; an entry
\* that is gone was at 1; a new entry was set to 2 in the round and is at 1.
DecayedByOne(before, after) ==
    /\ \A k \in DOMAIN before :
          IF k \in DOMAIN after THEN after[k] \in {before[k] - 1, 1}
          ELSE before[k] = 1
    /\ \A k \in DOMAIN after \ DOMAIN before : after[k] = 1

\* C13: every status effect stored on an actor has a duration above 0; the
\* decay at the end of a round lowers every duration by exactly 1 and removes
\* an entry exactly when it reaches 0.
C13_StatusDurations ==
    [][/\ DurationsPositive'
       /\ (pc = "combat" /\ last'.enemy_acted) =>
             /\ DecayedByOne(player.status_effects, player'.status_effects)
             /\ DecayedByOne(enemy.status_effects,
                             IF pc' = "combat" THEN enemy'.status_effects
                             ELSE last'.foe.status_effects)]_vars

\* C13, reached: in one round the player focused and the wolf howled; both
\* durations, set to 2, stand at 1 after the decay.
C13_TwoStatusesAfterDecay ==
    /\ pc = "combat"
    /\ DOMAIN player.status_effects = {"focused", "shaken"}
    /\ player.status_effects["focused"] = 1
    /\ player.status_effects["shaken"] = 1

\* C14: an unrecognized combat action consumes no round: the enemy does not
\* act, no status decays, player, enemy, inventory and flags are unchanged,
\* and the player is asked again.
C14_UnknownActionTakesNoRound ==
    [][(pc = "combat" /\ last'.op = "unknown") =>
          /\ ~last'.enemy_acted
          /\ pc' = "combat"
          /\ UNCHANGED <<player, enemy, inventory, flags, current_scene>>]_vars

\* C14, reached: the combat prompt again after an unknown action, in a fight
\* in which both sides carry wounds.
C14_AskedAgain ==
    /\ pc = "combat"
    /\ last.op = "unknown"
    /\ player.hp < player.max_hp
    /\ enemy.hp < enemy.max_hp

-----------------------------------------------------------------------------
(* Properties of the scene loop *)

\* C15: whenever the current node id is not a key of the node table, the
\* engine sets the current node to start and the session goes on with player,
\* inventory and flags unchanged.
C15_UnknownNodeRecovers ==
    [][(pc = "story" /\ current_scene \notin SceneIds) =>
          /\ current_scene' = "start"
          /\ pc' = "story"
          /\ UNCHANGED <<template, player, inventory, flags>>]_vars

\* C15, reached: back at start from the undefined `after` of the shadow's
\* edge, the flags still held ...
C15_RecoveredFromAfter ==
    /\ pc = "story"
    /\ last.op = "recover"
    /\ last.arg = "final_victory"
    /\ current_scene = "start"
    /\ "villager_token" \in flags

\* ... and from the undefined destination of a plain edge.
C15_RecoveredFromDestination ==
    /\ pc = "story"
    /\ last.op = "recover"
    /\ last.arg = "throne_influence"
    /\ current_scene = "start"
    /\ "offered_help" \in flags

-----------------------------------------------------------------------------
(* Termination of do_combat *)

\* C16: every combat terminates: when the player keeps choosing Attack or
\* Magic and a hit roll that can succeed eventually does, the combat loop ends
\* in victory, defeat or a flight, also against an enemy with a drain move.
C16_CombatTerminates ==
    (pc = "combat") ~> (pc = "story" /\ last.outcome \in {"victory", "defeat", "fled"})

\* C16, reached: a fight with the shadow, which has the drain move, over after
\* the shadow was wounded.
C16_DrainFightOver ==
    /\ pc = "story"
    /\ last.outcome \in {"victory", "defeat"}
    /\ \E m \in 1..Len(last.foe.moves) : last.foe.moves[m].type = "drain"
    /\ last.foe.hp < last.foe.max_hp

-----------------------------------------------------------------------------
(* Properties of spawn_enemy *)

\* floor(hp * (1 + (power - 15)/80)), in integers: hp * (65 + power) / 80.
FlooredScale(hp, power) == (hp * (65 + power)) \div 80

\* do_combat has just spawned the enemy of the chosen edge.
JustSpawned == pc = "combat" /\ last.op = "number" /\ last.outcome = "combat"

\* C17: for a known enemy key, the spawned enemy's hp and max_hp both equal
\* max(10, floor(template.hp * (1 + (P - 15)/80))), P the sum of the player's
\* current stat values; for throne_shadow (140) and P = 27 this is 161.
C17_SpawnedHpIsFlooredScale ==
    (JustSpawned /\ enemy_key \in DOMAIN ENEMIES) =>
        /\ enemy.hp = Max(10, FlooredScale(ENEMIES[enemy_key].hp, player_power(player)))
        /\ enemy.max_hp = enemy.hp

\* C17, the example: the shadow spawned for a player of power 27 has 161 hp.
C17_ShadowAtPower27 ==
    (JustSpawned /\ enemy_key = "throne_shadow" /\ player_power(player) = 27) =>
        (enemy.hp = 161 /\ enemy.max_hp = 161)

-----------------------------------------------------------------------------
(* Scenario: the glade *)

\* A fresh game in which the glade-search edge, the third of start, has just
\* been taken.
FreshAtGlade ==
    /\ pc = "story"
    /\ current_scene = "glade_search"
    /\ last = LastNum(3, "glade_search", "taken", NoEnemy)
    /\ flags = {}
    /\ inventory = InitInventory \o <<TarnishedAmulet>>
    /\ \E i \in 1..NumChars : player = NewPlayer(i)

\* C18: in a fresh game, choosing the glade-search edge at start and then the
\* wear-amulet edge, the first of glade_search, leads to a state where the
\* flag set contains amulet_worn and the current node is village.
C18_WearAmuletScenario ==
    [][(FreshAtGlade /\ last'.op = "number" /\ last'.num = 1) =>
          /\ "amulet_worn" \in flags'
          /\ current_scene' = "village"
          /\ pc' = "story"]_vars

\* C18, reached: the village after the two edges.
C18_AmuletWornInVillage ==
    /\ pc = "story"
    /\ last = LastNum(1, "village", "taken", NoEnemy)
    /\ current_scene = "village"
    /\ flags = {"amulet_worn"}
    /\ inventory = InitInventory \o <<TarnishedAmulet>>

-----------------------------------------------------------------------------
(* The flag set *)

-----------------------------------------------------------------------------
(* New games *)

\* A character has just been chosen at the start menu.
NewGameStarted == pc = "story" /\ last.op = "new"

\* The inventory holds the two starting items, described as by __init__ or
\* as by the reset at an ending.
TwoStartingItems == inventory \in {InitInventory, ResetInventory}

\* C20: every new game starts from a fresh session: also after a quit to the
\* start menu from a scene, the new game has an empty flag set, exactly the
\* two starting items and the current node start, as after a new game from an
\* ending.
C20_NewGameIsFresh ==
    NewGameStarted => (flags = {} /\ TwoStartingItems /\ current_scene = "start")

-----------------------------------------------------------------------------
(* Inventory commands that use nothing *)

\* show_inventory returned without calling use_item: B, U without a number,
\* a number that is no entry, any other command.
NothingUsed == {"back", "usage", "bad_index", "unrecognized"}

\* The step is a Use-Item combat action whose inventory command uses nothing.
CancelsInventoryInCombat ==
    /\ pc = "combat"
    /\ \E r \in {show_inventory(player, inventory, cmd) : cmd \in InvCmds} :
          r.res \in NothingUsed /\ CombatItemResult(r)

\* The step is an I at a scene whose inventory command uses nothing.
CancelsInventoryAtScene ==
    pc = "story" /\ last'.op = "inventory" /\ last'.arg \in NothingUsed

\* C21: a malformed or cancelled inventory command mutates no state, also
\* when the inventory was opened through the Use-Item combat action: the enemy
\* takes no action, no hp changes and no status decays as a result of it.
C21_CancelledInventoryChangesNothing ==
    [][(CancelsInventoryAtScene \/ CancelsInventoryInCombat) =>
          UNCHANGED <<pc, template, player, inventory, current_scene, flags, enemy>>]_vars

\* C21, outside combat: the part of the claim the code keeps.
C21_CancelledAtSceneChangesNothing ==
    [][CancelsInventoryAtScene =>
          UNCHANGED <<pc, template, player, inventory, current_scene, flags, enemy>>]_vars

-----------------------------------------------------------------------------
(* Hp over a completed round *)

\* The step is a pass of the combat loop in which the enemy took its turn.
CompletedRound == pc = "combat" /\ last'.enemy_acted

\* The enemy as the pass left it.
EnemyAfterRound == IF pc' = "combat" THEN enemy' ELSE last'.foe

HasDrain(e) == \E m \in 1..Len(e.moves) : e.moves[m].type = "drain"

-----------------------------------------------------------------------------
(* Effects of an edge that declares an enemy *)

\* The step in which do_combat returns to play.
ReturnsFromCombat ==
    pc' = "story" /\ last'.outcome \in {"victory", "fled", "defeat", "no_round"}

Holds(inv, item) == \E j \in 1..Len(inv) : inv[j] = item

-----------------------------------------------------------------------------
(* The ending redirect *)

\* ending_<id> when the table has that scene, else the raw id.
ResolvedEnding(id) == IF ("ending_" \o id) \in DOMAIN ProbeScenes THEN "ending_" \o id ELSE id

\* The edge typed at a scene of the probe table.
ProbeTyped == ProbeScenes[current_scene][last'.num]

\* The step takes an edge without enemy that declares an ending.
TakesPlainEndingEdge ==
    /\ pc = "story"
    /\ last'.op = "number"
    /\ last'.outcome = "taken"
    /\ Has(ProbeTyped.effect, "ending")

\* Item, heal and flag of the typed edge applied, the ending resolved.
PlainEndingEdgeApplied ==
    LET eff == ProbeTyped.effect IN
    /\ current_scene' = ResolvedEnding(eff.ending)
    /\ Has(eff, "item") => inventory' = Append(inventory, eff.item)
    /\ Has(eff, "flag") => flags' = flags \cup {eff.flag}
    /\ Has(eff, "heal") => player'.hp = clamp(player.hp + eff.heal, 0, player.max_hp)

\* C24: an accepted edge that declares ending: id sets the current node to
\* ending_<id> when that node exists in the node table and to the raw id
\* otherwise, never to the edge's plain destination; its item, heal and flag
\* effects are applied before the redirect. (The edges that reach the ending
\* block: an edge that also declares enemy is the case of C23.)
C24_EndingRedirect ==
    [][TakesPlainEndingEdge =>
          /\ PlainEndingEdgeApplied
          /\ ProbeTyped.next_scene = "start" => current_scene' # "start"]_vars

\* C24, reached: the raw id after a healing edge taken by a wounded player.
C24_RawIdAfterHeal ==
    /\ pc = "story"
    /\ last.op = "number"
    /\ last.num = 3
    /\ last.outcome = "taken"
    /\ current_scene = "nowhere"
    /\ "probed" \in flags
    /\ Holds(inventory, HerbalSalve)
    /\ player.hp < player.max_hp

-----------------------------------------------------------------------------
(* Fresh enemies *)

\* The enemy a key yields from the template table for a player of the given
\* power, the fallback for a key the table does not have.
FreshEnemy(key, power) ==
    IF key \in DOMAIN ENEMIES
    THEN LET t == ENEMIES[key] IN
         [max_hp |-> Max(10, ScaledHp(t.hp, power)), hp |-> Max(10, ScaledHp(t.hp, power)),
          stats |-> Stats(t.str, t.agi, t.mag), moves |-> t.moves,
          status_effects |-> EmptyDict]
    ELSE [max_hp |-> 30, hp |-> 30, stats |-> Stats(5, 5, 5),
          moves |-> << Move("Tap", 4, "physical") >>, status_effects |-> EmptyDict]

-----------------------------------------------------------------------------
(* The fallback enemy *)

UnknownKey == Has(edge.effect, "enemy") /\ enemy_key \notin DOMAIN ENEMIES

\* C26: spawning an enemy for a key that is not in the template table never
\* fails: it yields the generic fallback actor with fixed hp 30/30 and stats
\* 5/5/5, not scaled by the player's power, and the combat proceeds normally:
\* the fight is on with that actor, which keeps its max_hp, stats and move.
C26_UnknownKeySpawnsFallback ==
    /\ (UnknownKey /\ last.op = "number" /\ last.outcome \in {"combat", "no_round"}) =>
          /\ last.foe.hp = 30
          /\ last.foe.max_hp = 30
          /\ last.foe.stats = Stats(5, 5, 5)
          /\ last.foe.status_effects = EmptyDict
          /\ is_alive(player) => (pc = "combat" /\ enemy = last.foe)
    /\ (UnknownKey /\ pc = "combat") =>
          /\ enemy.max_hp = 30
          /\ enemy.stats = Stats(5, 5, 5)
          /\ enemy.moves = << Move("Tap", 4, "physical") >>
          /\ 0 < enemy.hp /\ enemy.hp <= 30

\* C26, reached: the fight with the fallback actor under way, both sides hit.
C26_FallbackFightUnderWay ==
    /\ pc = "combat"
    /\ UnknownKey
    /\ enemy.hp < enemy.max_hp
    /\ player.hp < player.max_hp

\* C26, reached: the fallback actor defeated.
C26_FallbackDefeated ==
    /\ Returned("victory")
    /\ UnknownKey
    /\ last.foe.hp = 0
    /\ last.foe.max_hp = 30

-----------------------------------------------------------------------------
(* use_item outside combat *)

\* inv without its k-th entry, the others in their order.
Without(inv, k) == SubSeq(inv, 1, k - 1) \o SubSeq(inv, k + 1, Len(inv))

\* The step is an I at a scene in which use_item took the given branch.
UsesAtScene(branch) == pc = "story" /\ last'.op = "inventory" /\ last'.arg = branch

HealUsed(k) ==
    /\ Has(inventory[k].effect, "heal")
    /\ inventory' = Without(inventory, k)
    /\ player' = [player EXCEPT
                    !.hp = Max(0, Min(player.max_hp, player.hp + inventory[k].effect.heal))]

BuffUsed(k) ==
    LET b == inventory[k].effect.buff.items IN
    /\ ~Has(inventory[k].effect, "heal")
    /\ ~Has(inventory[k].effect, "escape")
    /\ inventory' = Without(inventory, k)
    /\ player'.stats[b[1]] = player.stats[b[1]] + b[2]
    /\ \A st \in DOMAIN player.stats \ {b[1]} : player'.stats[st] = player.stats[st]
    /\ DOMAIN player'.stats = DOMAIN player.stats
    /\ player'.hp = player.hp
    /\ player'.max_hp = player.max_hp

\* C27: using an inventory item at a valid index removes exactly that one
\* entry and keeps the order of the others when the item is a heal or a buff
\* item (hp clamp-added, or the named stat raised by the magnitude); using an
\* escape item outside combat or an item with an empty effect leaves
\* inventory and player unchanged.
C27_UseItemFrame ==
    [][/\ UsesAtScene("heal") => \E k \in 1..Len(inventory) : HealUsed(k)
       /\ UsesAtScene("buff") =>
             \E k \in 1..Len(inventory) : Has(inventory[k].effect, "buff") /\ BuffUsed(k)
       /\ (UsesAtScene("escape") \/ UsesAtScene("unusable")) =>
             UNCHANGED <<inventory, player>>
       /\ (pc = "story" /\ last'.op = "inventory") =>
             UNCHANGED <<pc, template, current_scene, flags, enemy>>]_vars

\* C27, reached: the potion, first of three entries, used by a wounded
\* player: the bomb and the map moved up in their order.
C27_FirstOfThreeUsed ==
    /\ pc = "story"
    /\ last.op = "inventory"
    /\ last.arg = "heal"
    /\ Len(inventory) = 2
    /\ inventory[1].name = "Smoke Bomb"
    /\ inventory[2].name = "Hidden Map"
    /\ player.hp = 34

\* C27, reached: the amulet worn ...
C27_BuffUsed ==
    /\ pc = "story"
    /\ last.op = "inventory"
    /\ last.arg = "buff"
    /\ player.stats.magic = 11
    /\ inventory = InitInventory

\* ... and the map, whose effect is empty, tried.
C27_EmptyEffectTried ==
    /\ pc = "story"
    /\ last.op = "inventory"
    /\ last.arg = "unusable"
    /\ Holds(inventory, HiddenMap)

-----------------------------------------------------------------------------
(* The peace ending *)

\* C28: whenever the current node is ending_peace in a playthrough started by
\* a new game, the flag saved_villager is in the flag set or the inventory
\* holds an item named saved_villager.
C28_PeaceNeedsSavedVillager ==
    current_scene = "ending_peace" =>
        \/ "saved_villager" \in flags
        \/ \E j \in 1..Len(inventory) : inventory[j].name = "saved_villager"

\* C28, reached: the peace ending, by the negotiation, in a playthrough that
\* a new game started.
C28_PeaceReached ==
    /\ pc = "story"
    /\ current_scene = "ending_peace"
    /\ last = LastNum(1, "ending_peace", "taken", NoEnemy)
    /\ save_file = NoFile
    /\ steps = MaxWalk

-----------------------------------------------------------------------------
(* Endings *)

\* C29: once the current node is a node with zero edges, it stays the current
\* node and player, inventory and flags stay unchanged under every decision
\* except New Game and Quit; Save at an ending changes no in-memory state.
C29_EndingIsTerminal ==
    [][(pc = "story" /\ current_scene \in SceneIds /\ Len(scenes[current_scene]) = 0) =>
          /\ last'.op \notin {"ending_new", "exit"} =>
                UNCHANGED <<pc, template, player, inventory, current_scene, flags>>
          /\ last'.op = "save" =>
                /\ UNCHANGED <<pc, template, player, inventory, current_scene, flags, enemy, edge>>
                /\ save_file' = SaveData]_vars

\* C29, reached: a save made at the ending of the flight.
C29_SavedAtEnding ==
    /\ pc = "story"
    /\ current_scene = "ending_flee"
    /\ last.op = "save"
    /\ last.arg = "ending"
    /\ save_file.current_scene = "ending_flee"

====
